---------------------------- MODULE Spec2Model ----------------------------
(***************************************************************************)
(* College Metrics Explorer: the formatters, the metrics aggregation       *)
(* (get_school_metrics), the fetch loop (fetch_school_data) and the page   *)
(* script (main) of app.py / data_loader.py.                               *)
(*                                                                         *)
(* Python values are tagged records:                                       *)
(*   None        [t |-> "none"]                                            *)
(*   a number    [t |-> "num", n |-> value * Scale]   (fixed point)        *)
(*   a string    [t |-> "str", s |-> sequence of one-character strings]    *)
(*   a dict      [t |-> "map", m |-> function from keys to values]         *)
(* and a raised exception, as the outcome of an expression, is             *)
(*               [t |-> "raise", e |-> exception class name].              *)
(* Numbers are fixed point with four decimal digits; a number whose value  *)
(* is integral stands for a Python int.                                    *)
(***************************************************************************)
EXTENDS Integers, Sequences, FiniteSets, TLC

VARIABLES
    pc,               \* position of the script / of the unit under test
    idx,              \* fetch_school_data: index of the next school of the loop
    responses,        \* the HTTP responses received so far, by school (history)
    schools_data,     \* fetch_school_data's (cached) return value
    selected_school,  \* main: the selectbox's value
    school_data,      \* main: the selected raw record / the aggregator's input
    metrics,          \* main: get_school_metrics' return value
    shown,            \* main: the derived values rendered so far
    err,              \* the exception that ended the run, or "none"
    arg,              \* formatter unit: the argument
    out,              \* formatter unit: the return value
    edits             \* aggregator unit: number of keys deleted / overwritten

vars == <<pc, idx, responses, schools_data, selected_school, school_data,
          metrics, shown, err, arg, out, edits>>

---------------------------------------------------------------------------
(* Python values *)

Scale == 100 * 100

None == [t |-> "none"]

Num(n) == [t |-> "num", n |-> n]

PyInt(i) == Num(i * Scale)

Str(s) == [t |-> "str", s |-> s]

Map(m) == [t |-> "map", m |-> m]

Raise(e) == [t |-> "raise", e |-> e]

EmptyDict == Map(<<>>)

IsRaise(v) == v.t = "raise"

NA == <<"N", "/", "A">>

Abs(n) == IF n < 0 THEN -n ELSE n

DigitChars == <<"0", "1", "2", "3", "4", "5", "6", "7", "8", "9">>

RECURSIVE Digits(_)
(* the decimal digits of a natural number *)
Digits(n) ==
    IF n < 10 THEN <<DigitChars[n + 1]>>
    ELSE Digits(n \div 10) \o <<DigitChars[(n % 10) + 1]>>

RECURSIVE Group(_)
(* the ',' option of the format mini-language: a comma every three digits *)
Group(ds) ==
    IF Len(ds) <= 3 THEN ds
    ELSE Group(SubSeq(ds, 1, Len(ds) - 3)) \o <<",">>
         \o SubSeq(ds, Len(ds) - 2, Len(ds))

(* round |n| / unit to the nearest integer, ties to even (the 'f' format) *)
RoundDiv(n, unit) ==
    LET q == n \div unit
        r == n % unit
    IN  IF 2 * r > unit THEN q + 1
        ELSE IF 2 * r < unit THEN q
        ELSE IF q % 2 = 0 THEN q ELSE q + 1

RECURSIVE StripZeros(_)
StripZeros(ds) ==
    IF Len(ds) > 1 /\ ds[Len(ds)] = "0" THEN StripZeros(SubSeq(ds, 1, Len(ds) - 1))
    ELSE ds

(* the four fraction digits of a fixed-point number *)
FracDigits(n) ==
    LET f == Abs(n) % Scale
    IN  <<DigitChars[(f \div 1000) + 1], DigitChars[((f \div 100) % 10) + 1],
          DigitChars[((f \div 10) % 10) + 1], DigitChars[(f % 10) + 1]>>

Sign(n) == IF n < 0 THEN <<"-">> ELSE <<>>

(* str(x) / f"{x}" *)
PyStr(v) ==
    CASE v.t = "none" -> <<"N", "o", "n", "e">>
      [] v.t = "str"  -> v.s
      [] v.t = "num"  ->
            IF v.n % Scale = 0 THEN Sign(v.n) \o Digits(Abs(v.n) \div Scale)
            ELSE Sign(v.n) \o Digits(Abs(v.n) \div Scale) \o <<".">>
                 \o StripZeros(FracDigits(v.n))
      [] v.t = "map" /\ DOMAIN v.m = {} -> <<"{", "}">>

(* bool(x) *)
Truthy(v) ==
    CASE v.t = "none" -> FALSE
      [] v.t = "num"  -> v.n # 0
      [] v.t = "str"  -> v.s # <<>>
      [] OTHER        -> DOMAIN v.m # {}

---------------------------------------------------------------------------
(* str methods and float()/int() *)

IsDigit(c) == \E d \in 0..9 : DigitChars[d + 1] = c

DigitVal(c) == CHOOSE d \in 0..9 : DigitChars[d + 1] = c

RECURSIVE DigitsVal(_)
DigitsVal(ds) ==
    IF ds = <<>> THEN 0
    ELSE 10 * DigitsVal(SubSeq(ds, 1, Len(ds) - 1)) + DigitVal(ds[Len(ds)])

RECURSIVE Replace(_, _)
(* s.replace(c, '') *)
Replace(s, c) ==
    IF s = <<>> THEN <<>>
    ELSE IF Head(s) = c THEN Replace(Tail(s), c)
    ELSE <<Head(s)>> \o Replace(Tail(s), c)

RECURSIVE RStrip(_, _)
(* s.rstrip(c) *)
RStrip(s, c) ==
    IF Len(s) > 0 /\ s[Len(s)] = c THEN RStrip(SubSeq(s, 1, Len(s) - 1), c)
    ELSE s

(* float(s) for a string: [sign] digits [. digits], the fraction of at most
   four digits (the formatters print one or two); anything else, "N/A"
   included, is a ValueError *)
ParseFloat(s) ==
    LET neg  == Len(s) > 0 /\ s[1] = "-"
        body == IF Len(s) > 0 /\ s[1] \in {"-", "+"} THEN Tail(s) ELSE s
        dots == {i \in 1..Len(body) : body[i] = "."}
        p    == IF dots = {} THEN Len(body) + 1 ELSE CHOOSE i \in dots : TRUE
        ip   == SubSeq(body, 1, p - 1)
        fp   == SubSeq(body, p + 1, Len(body))
        ok   == /\ Cardinality(dots) <= 1
                /\ Len(ip) + Len(fp) >= 1
                /\ \A i \in 1..Len(ip) : IsDigit(ip[i])
                /\ \A i \in 1..Len(fp) : IsDigit(fp[i])
        pad  == fp \o SubSeq(<<"0", "0", "0", "0">>, 1, 4 - Len(fp))
        mag  == DigitsVal(ip) * Scale + DigitsVal(pad)
    IN  CASE ~ok           -> Raise("ValueError")
          [] Len(fp) <= 4  -> Num(IF neg THEN -mag ELSE mag)

PyIntOf_na_as_zero(v) ==
    CASE v.t = "num" -> Num(IF v.n < 0 THEN -((-v.n) \div Scale) * Scale
                            ELSE (v.n \div Scale) * Scale)
      [] v.t = "str" ->
            LET neg  == Len(v.s) > 0 /\ v.s[1] = "-"
                body == IF Len(v.s) > 0 /\ v.s[1] \in {"-", "+"} THEN Tail(v.s) ELSE v.s
            IN  IF Len(body) >= 1 /\ \A i \in 1..Len(body) : IsDigit(body[i])
                THEN Num((IF neg THEN -1 ELSE 1) * DigitsVal(body) * Scale)
                ELSE Num(0)
      [] OTHER -> Raise("TypeError")

(* int(x) *)
PyIntOf(v) ==
    CASE v.t = "num" -> Num(IF v.n < 0 THEN -((-v.n) \div Scale) * Scale
                            ELSE (v.n \div Scale) * Scale)
      [] v.t = "str" ->
            LET neg  == Len(v.s) > 0 /\ v.s[1] = "-"
                body == IF Len(v.s) > 0 /\ v.s[1] \in {"-", "+"} THEN Tail(v.s) ELSE v.s
            IN  IF Len(body) >= 1 /\ \A i \in 1..Len(body) : IsDigit(body[i])
                THEN Num((IF neg THEN -1 ELSE 1) * DigitsVal(body) * Scale)
                ELSE Raise("ValueError")
      [] OTHER -> Raise("TypeError")

(* f"{x:,}" *)
FmtGrouped(v) ==
    CASE v.t = "num" ->
            IF v.n % Scale = 0 THEN Str(Sign(v.n) \o Group(Digits(Abs(v.n) \div Scale)))
            ELSE Str(Sign(v.n) \o Group(Digits(Abs(v.n) \div Scale)) \o <<".">>
                     \o StripZeros(FracDigits(v.n)))
      [] v.t = "str" -> Raise("ValueError")
      [] OTHER -> Raise("TypeError")

---------------------------------------------------------------------------
(* app.py: the formatters *)

format_currency_no_zero_guard(amount) ==
    CASE amount.t = "raise" -> amount
      [] amount.t = "none"  -> Str(NA)
      [] amount.t = "num"   ->
            LET cents == RoundDiv(Abs(amount.n), Scale \div 100)
            IN  Str(<<"$">> \o Sign(amount.n) \o Group(Digits(cents \div 100))
                    \o <<".">> \o <<DigitChars[((cents \div 10) % 10) + 1],
                                    DigitChars[(cents % 10) + 1]>>)
      [] amount.t = "str"   -> Raise("ValueError")
      [] OTHER              -> Raise("TypeError")

format_currency(amount) ==
    CASE amount.t = "raise" -> amount
      [] amount.t = "none"  -> Str(NA)
      [] amount.t = "num"   ->
            IF amount.n = 0 THEN Str(NA)
            ELSE LET cents == RoundDiv(Abs(amount.n), Scale \div 100)
                 IN  Str(<<"$">> \o Sign(amount.n) \o Group(Digits(cents \div 100))
                         \o <<".">> \o <<DigitChars[((cents \div 10) % 10) + 1],
                                         DigitChars[(cents % 10) + 1]>>)
      [] amount.t = "str"   -> Raise("ValueError")
      [] OTHER              -> Raise("TypeError")

(* decimal * 100 to one decimal place: the tenths of decimal * 100 are the
   thousandths of decimal *)
format_percentage_zero_guard(decimal) ==
    CASE decimal.t = "raise" -> decimal
      [] decimal.t = "none"  -> Str(NA)
      [] decimal.t = "num"   ->
            IF decimal.n = 0 THEN Str(NA)
            ELSE LET tenths == RoundDiv(Abs(decimal.n), Scale \div 1000)
                 IN  Str(Sign(decimal.n) \o Digits(tenths \div 10) \o <<".">>
                         \o <<DigitChars[(tenths % 10) + 1]>> \o <<"%">>)
      [] decimal.t = "str"   -> Raise("ValueError")
      [] OTHER               -> Raise("TypeError")

format_percentage(decimal) ==
    CASE decimal.t = "raise" -> decimal
      [] decimal.t = "none"  -> Str(NA)
      [] decimal.t = "num"   ->
            LET tenths == RoundDiv(Abs(decimal.n), Scale \div 1000)
            IN  Str(Sign(decimal.n) \o Digits(tenths \div 10) \o <<".">>
                    \o <<DigitChars[(tenths % 10) + 1]>> \o <<"%">>)
      [] decimal.t = "str"   -> Raise("ValueError")
      [] OTHER               -> Raise("TypeError")

---------------------------------------------------------------------------
(* dict.get and the report's ordered dicts *)

(* obj.get(key, default) with no guard on what obj is, as the source calls
   it: a non-dict receiver (None, a number, a string) has no attribute get *)
Get_none_on_missing(obj, key, default) ==
    CASE obj.t = "raise" -> obj
      [] obj.t = "map"   -> IF key \in DOMAIN obj.m THEN obj.m[key] ELSE None
      [] OTHER           -> Raise("AttributeError")

Get(obj, key, default) ==
    CASE obj.t = "raise" -> obj
      [] obj.t = "map"   -> IF key \in DOMAIN obj.m THEN obj.m[key] ELSE default
      [] OTHER           -> Raise("AttributeError")

RECURSIVE Lookup(_, _, _)
(* the chain obj.get(k1, {}).get(k2, {}) ... .get(kn, default) *)
Lookup(obj, path, default) ==
    IF Len(path) = 1 THEN Get(obj, path[1], default)
    ELSE Lookup(Get(obj, path[1], EmptyDict), Tail(path), default)

(* a dict literal, in insertion order: a sequence of <<key, value>> *)
OD(items) == [t |-> "odict", items |-> items]

At(od, key) == od.items[CHOOSE i \in 1..Len(od.items) : od.items[i][1] = key][2]

NoRaise == [t |-> "ok"]

RECURSIVE FirstRaise(_), FirstRaiseFrom(_, _)
(* the exception that building the literal raises: the first one in
   evaluation (source) order, or NoRaise *)
FirstRaise(v) ==
    CASE v.t = "raise" -> v
      [] v.t = "odict" -> FirstRaiseFrom(v.items, 1)
      [] OTHER         -> NoRaise

FirstRaiseFrom(items, i) ==
    IF i > Len(items) THEN NoRaise
    ELSE LET r == FirstRaise(items[i][2])
         IN  IF r # NoRaise THEN r ELSE FirstRaiseFrom(items, i + 1)

RECURSIVE Leaves(_), LeavesFrom(_, _)
(* the leaf values of a report, in order *)
Leaves(v) ==
    IF v.t = "odict" THEN LeavesFrom(v.items, 1) ELSE <<v>>

LeavesFrom(items, i) ==
    IF i > Len(items) THEN <<>>
    ELSE Leaves(items[i][2]) \o LeavesFrom(items, i + 1)

---------------------------------------------------------------------------
(* app.py: get_school_metrics *)

(* f"{a}, {b}" *)
FmtLocation(city, state) ==
    IF IsRaise(city) THEN city
    ELSE IF IsRaise(state) THEN state
    ELSE Str(PyStr(city) \o <<",", " ">> \o PyStr(state))

(* f"https://{url}" if url else "N/A" *)
FmtWebsite(url) ==
    IF IsRaise(url) THEN url
    ELSE IF Truthy(url) THEN Str(<<"h", "t", "t", "p", "s", ":", "/", "/">> \o PyStr(url))
    ELSE Str(NA)

(* "Public" if ownership == 1 else "Private" *)
FmtType(ownership) ==
    IF IsRaise(ownership) THEN ownership
    ELSE IF ownership = PyInt(1) THEN Str(<<"P", "u", "b", "l", "i", "c">>)
    ELSE Str(<<"P", "r", "i", "v", "a", "t", "e">>)

(* f"{ratio}:1" *)
FmtRatio(ratio) ==
    IF IsRaise(ratio) THEN ratio ELSE Str(PyStr(ratio) \o <<":", "1">>)

MetricsLiteral(school_data_) ==
    LET latest == Get(school_data_, "latest", EmptyDict)
        school == Get(school_data_, "school", EmptyDict)
    IN OD(<<
      <<"Institution Overview", OD(<<
        <<"Name", Get(school, "name", None)>>,
        <<"Location", FmtLocation(Get(school, "city", Str(NA)), Get(school, "state", Str(NA)))>>,
        <<"Address", Get(school, "address", Str(NA))>>,
        <<"Website", FmtWebsite(Get(school, "school_url", None))>>,
        <<"Type", FmtType(Get(school, "ownership", None))>>,
        <<"Carnegie Classification", Get(school, "carnegie_basic", None)>>,
        <<"Accreditor", Get(school, "accreditor", None)>>,
        <<"Religious Affiliation", Get(school, "religious_affiliation", Str(<<"N", "o", "n", "e">>))>> >>)>>,
      <<"Enrollment & Faculty", OD(<<
        <<"Student Body", OD(<<
          <<"Undergraduate Enrollment", Lookup(latest, <<"student", "enrollment", "undergrad_12_month">>, Str(NA))>>,
          <<"Graduate Enrollment", Lookup(latest, <<"student", "enrollment", "grad_12_month">>, Str(NA))>>,
          <<"Part-time Share", format_percentage(Lookup(latest, <<"student", "part_time_share">>, None))>> >>)>>,
        <<"Faculty", OD(<<
          <<"Student-Faculty Ratio", FmtRatio(Lookup(latest, <<"student", "demographics", "student_faculty_ratio">>, None))>>,
          <<"Full-time Faculty Rate", format_percentage(Get(school, "ft_faculty_rate", None))>>,
          <<"Faculty Salary", format_currency(Get(school, "faculty_salary", None))>> >>)>> >>)>>,
      <<"Demographics", OD(<<
        <<"Gender", OD(<<
          <<"Men", format_percentage(Lookup(latest, <<"student", "demographics", "men">>, None))>>,
          <<"Women", format_percentage(Lookup(latest, <<"student", "demographics", "women">>, None))>> >>)>>,
        <<"Student Background", OD(<<
          <<"First Generation", format_percentage(Lookup(latest, <<"student", "share_firstgeneration">>, None))>>,
          <<"Age 25 or Older", format_percentage(Lookup(latest, <<"student", "share_25_older">>, None))>>,
          <<"Average Age at Entry", Lookup(latest, <<"student", "demographics", "age_entry">>, None)>>,
          <<"Median Family Income", format_currency(Lookup(latest, <<"student", "demographics", "median_family_income">>, None))>> >>)>> >>)>>,
      <<"Cost & Financial Aid", OD(<<
        <<"Direct Costs", OD(<<
          <<"In-State Tuition", format_currency(Lookup(latest, <<"cost", "tuition", "in_state">>, None))>>,
          <<"Out-of-State Tuition", format_currency(Lookup(latest, <<"cost", "tuition", "out_of_state">>, None))>>,
          <<"Room and Board", format_currency(Lookup(latest, <<"cost", "roomboard", "oncampus">>, None))>>,
          <<"Books and Supplies", format_currency(Lookup(latest, <<"cost", "booksupply">>, None))>> >>)>>,
        <<"Net Price", OD(<<
          <<"Average", format_currency(Lookup(latest, <<"cost", "avg_net_price", "overall">>, None))>>,
          <<"Low Income (0-30k)", format_currency(Lookup(latest, <<"cost", "net_price", "public", "by_income_level", "0-30000">>, None))>>,
          <<"High Income (75k+)", format_currency(Lookup(latest, <<"cost", "net_price", "public", "by_income_level", "75000-plus">>, None))>> >>)>>,
        <<"Aid & Debt", OD(<<
          <<"Pell Grant Recipients", format_percentage(Lookup(latest, <<"student", "students_with_pell_grant">>, None))>>,
          <<"Federal Loan Recipients", format_percentage(Lookup(latest, <<"aid", "federal_loan_rate">>, None))>>,
          <<"Median Debt", format_currency(Lookup(latest, <<"aid", "median_debt", "completers", "overall">>, None))>> >>)>> >>)>>,
      <<"Student Success", OD(<<
        <<"Retention", OD(<<
          <<"First-year Full-time", format_percentage(Lookup(latest, <<"student", "retention_rate", "overall", "full_time">>, None))>>,
          <<"First-year Part-time", format_percentage(Lookup(latest, <<"student", "retention_rate", "overall", "part_time">>, None))>> >>)>>,
        <<"Graduation", OD(<<
          <<"4-year rate", format_percentage(Lookup(latest, <<"completion", "completion_rate_4yr_150nt">>, None))>>,
          <<"6-year rate", format_percentage(Lookup(latest, <<"completion", "completion_rate_4yr_150nt">>, None))>>,
          <<"Transfer-out rate", format_percentage(Lookup(latest, <<"completion", "transfer_rate", "4yr", "full_time">>, None))>> >>)>> >>)>>,
      <<"Career Outcomes", OD(<<
        <<"Median Earnings", OD(<<
          <<"6 years after entry", format_currency(Lookup(latest, <<"earnings", "6_yrs_after_entry", "median">>, None))>>,
          <<"8 years after entry", format_currency(Lookup(latest, <<"earnings", "8_yrs_after_entry", "median_earnings">>, None))>>,
          <<"10 years after entry", format_currency(Lookup(latest, <<"earnings", "10_yrs_after_entry", "median">>, None))>> >>)>>,
        <<"Employment", OD(<<
          <<"Earning over $25k/year", format_percentage(Lookup(latest, <<"earnings", "6_yrs_after_entry", "percent_greater_than_25000">>, None))>> >>)>>,
        <<"Loan Repayment", OD(<<
          <<"1-year rate", format_percentage(Lookup(latest, <<"repayment", "1_yr", "rate_suppressed", "overall">>, None))>>,
          <<"3-year rate", format_percentage(Lookup(latest, <<"repayment", "3_yr", "rate_suppressed", "overall">>, None))>> >>)>> >>)>>
    >>)

(* the call: the report, or the exception the literal raises *)
get_school_metrics(school_data_) ==
    LET r == MetricsLiteral(school_data_)
        x == FirstRaise(r)
    IN  IF x # NoRaise THEN x ELSE r

(* every field path get_school_metrics looks up, from the record's root, in
   source order, with the default its last get passes (None when it passes
   none) *)
FieldPaths == <<
    <<<<"school", "name">>, None>>,
    <<<<"school", "city">>, Str(NA)>>,
    <<<<"school", "state">>, Str(NA)>>,
    <<<<"school", "address">>, Str(NA)>>,
    <<<<"school", "school_url">>, None>>,
    <<<<"school", "ownership">>, None>>,
    <<<<"school", "carnegie_basic">>, None>>,
    <<<<"school", "accreditor">>, None>>,
    <<<<"school", "religious_affiliation">>, Str(<<"N", "o", "n", "e">>)>>,
    <<<<"latest", "student", "enrollment", "undergrad_12_month">>, Str(NA)>>,
    <<<<"latest", "student", "enrollment", "grad_12_month">>, Str(NA)>>,
    <<<<"latest", "student", "part_time_share">>, None>>,
    <<<<"latest", "student", "demographics", "student_faculty_ratio">>, None>>,
    <<<<"school", "ft_faculty_rate">>, None>>,
    <<<<"school", "faculty_salary">>, None>>,
    <<<<"latest", "student", "demographics", "men">>, None>>,
    <<<<"latest", "student", "demographics", "women">>, None>>,
    <<<<"latest", "student", "share_firstgeneration">>, None>>,
    <<<<"latest", "student", "share_25_older">>, None>>,
    <<<<"latest", "student", "demographics", "age_entry">>, None>>,
    <<<<"latest", "student", "demographics", "median_family_income">>, None>>,
    <<<<"latest", "cost", "tuition", "in_state">>, None>>,
    <<<<"latest", "cost", "tuition", "out_of_state">>, None>>,
    <<<<"latest", "cost", "roomboard", "oncampus">>, None>>,
    <<<<"latest", "cost", "booksupply">>, None>>,
    <<<<"latest", "cost", "avg_net_price", "overall">>, None>>,
    <<<<"latest", "cost", "net_price", "public", "by_income_level", "0-30000">>, None>>,
    <<<<"latest", "cost", "net_price", "public", "by_income_level", "75000-plus">>, None>>,
    <<<<"latest", "student", "students_with_pell_grant">>, None>>,
    <<<<"latest", "aid", "federal_loan_rate">>, None>>,
    <<<<"latest", "aid", "median_debt", "completers", "overall">>, None>>,
    <<<<"latest", "student", "retention_rate", "overall", "full_time">>, None>>,
    <<<<"latest", "student", "retention_rate", "overall", "part_time">>, None>>,
    <<<<"latest", "completion", "completion_rate_4yr_150nt">>, None>>,
    <<<<"latest", "completion", "transfer_rate", "4yr", "full_time">>, None>>,
    <<<<"latest", "earnings", "6_yrs_after_entry", "median">>, None>>,
    <<<<"latest", "earnings", "8_yrs_after_entry", "median_earnings">>, None>>,
    <<<<"latest", "earnings", "10_yrs_after_entry", "median">>, None>>,
    <<<<"latest", "earnings", "6_yrs_after_entry", "percent_greater_than_25000">>, None>>,
    <<<<"latest", "repayment", "1_yr", "rate_suppressed", "overall">>, None>>,
    <<<<"latest", "repayment", "3_yr", "rate_suppressed", "overall">>, None>> >>

---------------------------------------------------------------------------
(* Raw school records (results[0] of the College Scorecard response) *)

(* a record holding every key the program reads, each leaf a number or a
   string as the API serves it *)
FullRecord ==
    Map(
      "id" :> PyInt(166027) @@
      "school" :> Map(
          "name" :> Str(<<"H", "U">>) @@
          "city" :> Str(<<"C", "a", "m">>) @@
          "state" :> Str(<<"M", "A">>) @@
          "address" :> Str(<<"1", " ", "Y", "d">>) @@
          "school_url" :> Str(<<"h", ".", "e", "d", "u">>) @@
          "ownership" :> PyInt(2) @@
          "carnegie_basic" :> PyInt(15) @@
          "accreditor" :> Str(<<"N", "E">>) @@
          "religious_affiliation" :> PyInt(30) @@
          "ft_faculty_rate" :> Num(8700) @@
          "faculty_salary" :> PyInt(18500)) @@
      "latest" :> Map(
          "student" :> Map(
              "size" :> PyInt(7500) @@
              "enrollment" :> Map(
                  "undergrad_12_month" :> PyInt(21000) @@
                  "grad_12_month" :> PyInt(14000)) @@
              "part_time_share" :> Num(153) @@
              "demographics" :> Map(
                  "student_faculty_ratio" :> PyInt(7) @@
                  "men" :> Num(4871) @@
                  "women" :> Num(5129) @@
                  "age_entry" :> PyInt(19) @@
                  "median_family_income" :> Num(123456000)) @@
              "share_firstgeneration" :> Num(1530) @@
              "share_25_older" :> Num(96) @@
              "students_with_pell_grant" :> Num(1799) @@
              "retention_rate" :> Map(
                  "overall" :> Map(
                      "full_time" :> Num(9996) @@
                      "part_time" :> PyInt(1)))) @@
          "cost" :> Map(
              "tuition" :> Map(
                  "in_state" :> PyInt(57261) @@
                  "out_of_state" :> PyInt(57261)) @@
              "roomboard" :> Map("oncampus" :> PyInt(19502)) @@
              "booksupply" :> PyInt(1000) @@
              "avg_net_price" :> Map("overall" :> PyInt(19491)) @@
              "net_price" :> Map(
                  "public" :> Map(
                      "by_income_level" :> Map(
                          "0-30000" :> PyInt(950) @@
                          "75000-plus" :> Num(204318900))))) @@
          "aid" :> Map(
              "federal_loan_rate" :> Num(212) @@
              "median_debt" :> Map(
                  "completers" :> Map("overall" :> PyInt(12665)))) @@
          "completion" :> Map(
              "completion_rate_4yr_150nt" :> Num(9764) @@
              "transfer_rate" :> Map(
                  "4yr" :> Map("full_time" :> PyInt(0)))) @@
          "earnings" :> Map(
              "6_yrs_after_entry" :> Map(
                  "median" :> PyInt(70300) @@
                  "percent_greater_than_25000" :> Num(8600)) @@
              "8_yrs_after_entry" :> Map("median_earnings" :> PyInt(81500)) @@
              "10_yrs_after_entry" :> Map("median" :> PyInt(95114))) @@
          "repayment" :> Map(
              "1_yr" :> Map("rate_suppressed" :> Map("overall" :> Num(9012))) @@
              "3_yr" :> Map("rate_suppressed" :> Map("overall" :> Num(9344)))) @@
          "admissions" :> Map(
              "admission_rate" :> Map("overall" :> Num(324)))))

EmptyRecord == EmptyDict

RECURSIVE KeyPaths(_)
(* every key of a record, at any depth, as the path of keys leading to it *)
KeyPaths(v) ==
    IF v.t # "map" THEN {}
    ELSE UNION {{<<k>>} \cup {<<k>> \o p : p \in KeyPaths(v.m[k])} : k \in DOMAIN v.m}

RECURSIVE HasPath(_, _)
(* the record holds every key of the path, each inside the one before *)
HasPath(v, path) ==
    IF path = <<>> THEN TRUE
    ELSE /\ v.t = "map"
         /\ Head(path) \in DOMAIN v.m
         /\ HasPath(v.m[Head(path)], Tail(path))

RECURSIVE ValueAt(_, _)
(* the value stored at a path that exists *)
ValueAt(v, path) ==
    IF path = <<>> THEN v ELSE ValueAt(v.m[Head(path)], Tail(path))

RECURSIVE DeleteAt(_, _)
(* the record without the key at path *)
DeleteAt(v, path) ==
    IF Len(path) = 1
    THEN Map([k \in DOMAIN v.m \ {path[1]} |-> v.m[k]])
    ELSE Map([k \in DOMAIN v.m |->
                IF k = path[1] THEN DeleteAt(v.m[k], Tail(path)) ELSE v.m[k]])

RECURSIVE SetAt(_, _, _)
(* the record with the value at path replaced *)
SetAt(v, path, new) ==
    IF path = <<>> THEN new
    ELSE Map([k \in DOMAIN v.m |->
                IF k = path[1] THEN SetAt(v.m[k], Tail(path), new) ELSE v.m[k]])

---------------------------------------------------------------------------
(* data_loader.py *)

SAMPLE_SCHOOLS == <<
    "Harvard University",
    "Yale University",
    "Princeton University",
    "Columbia University in the City of New York",
    "University of Pennsylvania",
    "Brown University",
    "Dartmouth College",
    "Cornell University",
    "University of California-Berkeley",
    "University of California-Los Angeles",
    "University of Michigan-Ann Arbor",
    "University of Virginia-Main Campus",
    "Georgia Institute of Technology-Main Campus",
    "University of North Carolina at Chapel Hill",
    "Williams College",
    "Amherst College",
    "Pomona College",
    "Swarthmore College",
    "Ohio State University-Main Campus",
    "Pennsylvania State University-Main Campus",
    "University of Texas at Austin",
    "University of Wisconsin-Madison",
    "University of Florida",
    "Arizona State University-Tempe" >>

(* the model runs the loop, and offers the selectbox, over the first
   NumSchools entries of SAMPLE_SCHOOLS *)
NumSchools == 2

Schools == {SAMPLE_SCHOOLS[i] : i \in 1..NumSchools}

(* the records the API serves in the model: the full record, and the full
   record without, or with a zero for, one of the fields the page derives
   its charts and summary values from *)
ServedDeletions == {
    <<"latest", "student", "size">>,
    <<"latest", "student", "enrollment", "undergrad_12_month">>,
    <<"latest", "student", "enrollment", "grad_12_month">>,
    <<"latest", "student", "enrollment">>,
    <<"latest", "student", "demographics", "men">>,
    <<"latest", "student", "demographics", "women">>,
    <<"latest", "earnings", "6_yrs_after_entry", "median">>,
    <<"latest", "earnings", "8_yrs_after_entry", "median_earnings">>,
    <<"latest", "earnings", "10_yrs_after_entry", "median">> }

ServedZeros == {
    <<"latest", "student", "enrollment", "grad_12_month">>,
    <<"latest", "student", "demographics", "men">>,
    <<"latest", "earnings", "10_yrs_after_entry", "median">> }

ServedRecords ==
    {FullRecord}
    \cup {DeleteAt(FullRecord, p) : p \in ServedDeletions}
    \cup {SetAt(FullRecord, p, PyInt(0)) : p \in ServedZeros}
    \cup {SetAt(FullRecord, <<"latest", "student", "enrollment", "undergrad_12_month">>, PyInt(999))}

(* response.status_code and response.json()['results'] *)
Responses ==
    {[status |-> st, results |-> rs] : st \in {404, 500}, rs \in {<<>>, <<FullRecord>>}}
    \cup {[status |-> 200, results |-> <<>>]}
    \cup {[status |-> 200, results |-> <<r>>] : r \in ServedRecords}

NoErr == [e |-> "none", at |-> "none"]

Crash(e, at) == [e |-> e, at |-> at]

(* the body of the loop after the request: school_data after the response
   of one school, or the KeyError of results[0]['id'] *)
StoreResponse_ignoring_status(sd, school, resp, now) ==
    IF resp.results # <<>>
    THEN IF Get(resp.results[1], "id", Raise("KeyError")).t = "raise"
         THEN Raise("KeyError")
         ELSE Map([k \in DOMAIN sd.m \cup {school} |->
                    IF k = school
                    THEN [id |-> resp.results[1].m["id"], school_name |-> school,
                          collected_at |-> now, raw_data |-> resp.results[1]]
                    ELSE sd.m[k]])
    ELSE sd

StoreResponse(sd, school, resp, now) ==
    IF resp.status = 200 /\ resp.results # <<>>
    THEN IF Get(resp.results[1], "id", Raise("KeyError")).t = "raise"
         THEN Raise("KeyError")
         ELSE Map([k \in DOMAIN sd.m \cup {school} |->
                    IF k = school
                    THEN [id |-> resp.results[1].m["id"], school_name |-> school,
                          collected_at |-> now, raw_data |-> resp.results[1]]
                    ELSE sd.m[k]])
    ELSE sd

NoLocals ==
    /\ school_data' = None
    /\ metrics' = None
    /\ shown' = <<>>

UnitVarsUnchanged == UNCHANGED <<arg, out, edits>>

(* one iteration of the for loop of fetch_school_data: request, response,
   store *)
FetchSchool ==
    /\ pc = "fetch"
    /\ idx <= NumSchools
    /\ \E resp \in Responses :
          LET school == SAMPLE_SCHOOLS[idx]
              sd     == StoreResponse(schools_data, school, resp, idx)
          IN  /\ responses' = (school :> resp) @@ responses
              /\ IF sd.t = "raise"
                 THEN /\ pc' = "crashed"
                      /\ err' = Crash(sd.e, "fetch")
                      /\ UNCHANGED <<schools_data, idx>>
                 ELSE /\ schools_data' = sd
                      /\ idx' = idx + 1
                      /\ UNCHANGED <<pc, err>>
    /\ UNCHANGED <<selected_school, school_data, metrics, shown>>
    /\ UnitVarsUnchanged

(* the loop is over: return school_data (st.cache_data keeps it) *)
FetchReturn ==
    /\ pc = "fetch"
    /\ idx > NumSchools
    /\ pc' = "select"
    /\ UNCHANGED <<idx, responses, schools_data, selected_school, school_data,
                   metrics, shown, err>>
    /\ UnitVarsUnchanged

---------------------------------------------------------------------------
(* app.py: main, one action per block of the script *)

(* the first exception among values computed in order, or NoRaise *)
FirstOf(vals) ==
    IF \E i \in 1..Len(vals) : IsRaise(vals[i])
    THEN vals[CHOOSE i \in 1..Len(vals) :
                  IsRaise(vals[i]) /\ \A j \in 1..(i - 1) : ~IsRaise(vals[j])]
    ELSE NoRaise

(* int(a) + int(b) *)
AddInts(a, b) ==
    LET x == PyIntOf(a)
        y == PyIntOf(b)
    IN  IF IsRaise(x) THEN x ELSE IF IsRaise(y) THEN y ELSE Num(x.n + y.n)

(* the st.selectbox of the sidebar *)
SelectSchool ==
    /\ pc = "select"
    /\ \E s \in Schools : selected_school' = s
    /\ pc' = "sidebar"
    /\ UNCHANGED <<idx, responses, schools_data, school_data, metrics, shown, err>>
    /\ UnitVarsUnchanged

(* the record of the selected school and the four quick stats *)
Sidebar ==
    /\ pc = "sidebar"
    /\ IF selected_school \notin DOMAIN schools_data.m
       THEN /\ pc' = "crashed"
            /\ err' = Crash("KeyError", "sidebar")
            /\ UNCHANGED <<school_data, shown>>
       ELSE LET sd     == schools_data.m[selected_school].raw_data
                latest == Get(sd, "latest", EmptyDict)
                quick  == <<
                    format_percentage(Lookup(latest, <<"admissions", "admission_rate", "overall">>, None)),
                    LET size == Lookup(latest, <<"student", "size">>, None)
                    IN  IF IsRaise(size) THEN size ELSE FmtGrouped(size),
                    format_currency(Lookup(latest, <<"earnings", "10_yrs_after_entry", "median">>, None)),
                    format_percentage(Lookup(latest, <<"completion", "completion_rate_4yr_150nt">>, None)) >>
                x      == FirstOf(quick)
            IN  /\ school_data' = sd
                /\ IF x # NoRaise
                   THEN /\ pc' = "crashed"
                        /\ err' = Crash(x.e, "sidebar")
                        /\ UNCHANGED shown
                   ELSE /\ pc' = "metrics"
                        /\ shown' = ("quick" :> quick) @@ shown
                        /\ UNCHANGED err
    /\ UNCHANGED <<idx, responses, schools_data, selected_school, metrics>>
    /\ UnitVarsUnchanged

(* metrics = get_school_metrics(school_data) *)
Metrics ==
    /\ pc = "metrics"
    /\ LET m == get_school_metrics(school_data)
       IN  IF IsRaise(m)
           THEN /\ pc' = "crashed"
                /\ err' = Crash(m.e, "metrics")
                /\ UNCHANGED metrics
           ELSE /\ pc' = "col1"
                /\ metrics' = m
                /\ UNCHANGED err
    /\ UNCHANGED <<idx, responses, schools_data, selected_school, school_data, shown>>
    /\ UnitVarsUnchanged

(* title, institution profile and the enrollment block of the overview tab *)
OverviewCol1 ==
    /\ pc = "col1"
    /\ LET enroll == At(At(metrics, "Enrollment & Faculty"), "Student Body")
           total  == AddInts(At(enroll, "Undergraduate Enrollment"),
                             At(enroll, "Graduate Enrollment"))
           ug     == PyIntOf(At(enroll, "Undergraduate Enrollment"))
           gr     == PyIntOf(At(enroll, "Graduate Enrollment"))
           x      == FirstOf(<<total, ug, gr>>)
       IN  IF x # NoRaise
           THEN /\ pc' = "crashed"
                /\ err' = Crash(x.e, "col1")
                /\ UNCHANGED shown
           ELSE /\ pc' = "col2"
                /\ shown' = ("total" :> FmtGrouped(total)) @@ ("undergrad" :> FmtGrouped(ug))
                             @@ ("graduate" :> FmtGrouped(gr)) @@ shown
                /\ UNCHANGED err
    /\ UNCHANGED <<idx, responses, schools_data, selected_school, school_data, metrics>>
    /\ UnitVarsUnchanged

(* the gender distribution series of the overview tab *)
OverviewCol2 ==
    /\ pc = "col2"
    /\ LET gender == At(At(metrics, "Demographics"), "Gender")
           series == << ParseFloat(RStrip(At(gender, "Men").s, "%")),
                        ParseFloat(RStrip(At(gender, "Women").s, "%")) >>
           x      == FirstOf(series)
       IN  IF x # NoRaise
           THEN /\ pc' = "crashed"
                /\ err' = Crash(x.e, "col2")
                /\ UNCHANGED shown
           ELSE /\ pc' = "costs"
                /\ shown' = ("gender" :> series) @@ shown
                /\ UNCHANGED err
    /\ UNCHANGED <<idx, responses, schools_data, selected_school, school_data, metrics>>
    /\ UnitVarsUnchanged

(* the costs tab: the report's strings are written as they are *)
CostsTab ==
    /\ pc = "costs"
    /\ pc' = "outcomes"
    /\ shown' = ("costs" :> At(At(metrics, "Cost & Financial Aid"), "Direct Costs")) @@ shown
    /\ UNCHANGED <<idx, responses, schools_data, selected_school, school_data, metrics, err>>
    /\ UnitVarsUnchanged

(* the outcomes tab: the earnings progression series *)
OutcomesTab ==
    /\ pc = "outcomes"
    /\ LET earnings == At(At(metrics, "Career Outcomes"), "Median Earnings")
           y == << ParseFloat(Replace(Replace(At(earnings, "6 years after entry").s, "$"), ",")),
                   ParseFloat(Replace(Replace(At(earnings, "8 years after entry").s, "$"), ",")),
                   ParseFloat(Replace(Replace(At(earnings, "10 years after entry").s, "$"), ",")) >>
           x == FirstOf(y)
       IN  IF x # NoRaise
           THEN /\ pc' = "crashed"
                /\ err' = Crash(x.e, "outcomes")
                /\ UNCHANGED shown
           ELSE /\ pc' = "done"
                /\ shown' = ("earnings" :> y) @@ shown
                /\ UNCHANGED err
    /\ UNCHANGED <<idx, responses, schools_data, selected_school, school_data, metrics>>
    /\ UnitVarsUnchanged

(* streamlit runs the script again on the next interaction; the fetched
   data is served from the cache and the selectbox keeps its value until the
   user changes it *)
Rerun ==
    /\ pc \in {"done", "crashed"}
    /\ err.at # "fetch"
    /\ pc' = "select"
    /\ err' = NoErr
    /\ NoLocals
    /\ UNCHANGED <<idx, responses, schools_data, selected_school>>
    /\ UnitVarsUnchanged

Init ==
    /\ pc = "fetch"
    /\ idx = 1
    /\ responses = <<>>
    /\ schools_data = EmptyDict
    /\ selected_school = "none"
    /\ school_data = None
    /\ metrics = None
    /\ shown = <<>>
    /\ err = NoErr
    /\ arg = None
    /\ out = None
    /\ edits = 0

Next ==
    \/ FetchSchool
    \/ FetchReturn
    \/ SelectSchool
    \/ Sidebar
    \/ Metrics
    \/ OverviewCol1
    \/ OverviewCol2
    \/ CostsTab
    \/ OutcomesTab
    \/ Rerun

Spec == Init /\ [][Next]_vars

---------------------------------------------------------------------------
(* The formatters on their own: an argument, then one call *)

MaxSmallArg == 60

(* fixed-point arguments: every value up to MaxSmallArg ten-thousandths
   either side of zero, and landmark values: amounts 12345.6, 9.996,
   999.996, -1234.5, 21000, 1000, 999.99, 0.153; fractions 0.153, 1.0,
   0.9996, 0.0153, 9.996, -1.2344 *)
CurrencyLandmarks == {123456000, 99960, 9999960, -12345000, 210000000,
                      10000000, 9999900, 1530}

PercentageLandmarks == {1530, 10000, 9996, 153, 99960, -12344}

(* a decimal tie of the rounding digit is left out: how the 'f' format
   rounds it depends on the binary value of the float *)
NoTie(n) == Abs(n) % 10 # 5 /\ Abs(n) % 100 # 50

SmallArgs == {n \in -MaxSmallArg..MaxSmallArg : NoTie(n)}

CurrencyInputs == {None} \cup {Num(n) : n \in SmallArgs \cup CurrencyLandmarks}

PercentageInputs == {None} \cup {Num(n) : n \in SmallArgs \cup PercentageLandmarks}

FormatInputs == CurrencyInputs \cup PercentageInputs

InitFormat ==
    /\ pc = "format"
    /\ arg \in FormatInputs
    /\ out = None
    /\ idx = 1
    /\ responses = <<>>
    /\ schools_data = EmptyDict
    /\ selected_school = "none"
    /\ school_data = None
    /\ metrics = None
    /\ shown = <<>>
    /\ err = NoErr
    /\ edits = 0

CallFormatCurrency ==
    /\ pc = "format"
    /\ arg \in CurrencyInputs
    /\ out' = format_currency(arg)
    /\ pc' = "currency_done"
    /\ UNCHANGED <<idx, responses, schools_data, selected_school, school_data,
                   metrics, shown, err, arg, edits>>

CallFormatPercentage ==
    /\ pc = "format"
    /\ arg \in PercentageInputs
    /\ out' = format_percentage(arg)
    /\ pc' = "percentage_done"
    /\ UNCHANGED <<idx, responses, schools_data, selected_school, school_data,
                   metrics, shown, err, arg, edits>>

NextFormat == CallFormatCurrency \/ CallFormatPercentage

SpecFormat == InitFormat /\ [][NextFormat]_vars

---------------------------------------------------------------------------
(* get_school_metrics on its own: a record, keys deleted or overwritten,
   then one call *)

MaxDeleted == 2

MaxOverwritten == 1

(* what a key is overwritten with: null, a number, a string *)
Overwrites == {None, PyInt(5), Str(<<"x">>)}

InitAgg ==
    /\ pc = "record"
    /\ school_data \in {FullRecord, EmptyRecord}
    /\ edits = 0
    /\ metrics = None
    /\ err = NoErr
    /\ idx = 1
    /\ responses = <<>>
    /\ schools_data = EmptyDict
    /\ selected_school = "none"
    /\ shown = <<>>
    /\ arg = None
    /\ out = None

(* a key, at any depth, is missing from the record *)
DeleteKey ==
    /\ pc = "record"
    /\ edits < MaxDeleted
    /\ \E p \in KeyPaths(school_data) : school_data' = DeleteAt(school_data, p)
    /\ edits' = edits + 1
    /\ UNCHANGED <<pc, idx, responses, schools_data, selected_school, metrics,
                   shown, err, arg, out>>

(* a key, at any depth, holds null or a scalar *)
OverwriteKey ==
    /\ pc = "record"
    /\ edits < MaxOverwritten
    /\ \E p \in KeyPaths(school_data), v \in Overwrites :
          school_data' = SetAt(school_data, p, v)
    /\ edits' = edits + 1
    /\ UNCHANGED <<pc, idx, responses, schools_data, selected_school, metrics,
                   shown, err, arg, out>>

Aggregate ==
    /\ pc = "record"
    /\ pc' = "aggregated"
    /\ LET m == get_school_metrics(school_data)
       IN  IF IsRaise(m)
           THEN err' = Crash(m.e, "metrics") /\ UNCHANGED metrics
           ELSE metrics' = m /\ UNCHANGED err
    /\ UNCHANGED <<idx, responses, schools_data, selected_school, school_data,
                   shown, arg, out, edits>>

NextAgg == DeleteKey \/ Aggregate

SpecAgg == InitAgg /\ [][NextAgg]_vars

NextOverwrite == OverwriteKey \/ Aggregate

SpecOverwrite == InitAgg /\ [][NextOverwrite]_vars

---------------------------------------------------------------------------
(* Properties *)

IsNumber(v) == v.t = "num"

(* the digits of a printed number carry a comma exactly every three places
   left of the point, which sits before the last `places` digits *)
WellGrouped(s, places) ==
    LET body == IF Len(s) > 0 /\ s[1] = "-" THEN Tail(s) ELSE s
        dot  == Len(body) - places
    IN  /\ Len(body) >= places + 2
        /\ body[dot] = "."
        /\ body[1] # ","
        /\ \A i \in 1..Len(body) :
              IF i = dot THEN TRUE
              ELSE IF i < dot /\ (dot - i) % 4 = 0 THEN body[i] = ","
              ELSE IsDigit(body[i])

(* a fixed-point value rounded to a multiple of unit, sign kept *)
RoundedTo(n, unit) == (IF n < 0 THEN -1 ELSE 1) * RoundDiv(Abs(n), unit) * unit

(* C8: format_currency returns "N/A" exactly for None and 0; any other number
   comes back as '$', then the value rounded to two decimals, with a comma
   every three integer digits; 12345.6 gives "$12,345.60". *)
C8_FormatCurrency ==
    pc = "currency_done" =>
        /\ ~IsRaise(out)
        /\ (out = Str(NA)) <=> (arg = None \/ arg = Num(0))
        /\ (IsNumber(arg) /\ arg # Num(0)) =>
              /\ Head(out.s) = "$"
              /\ WellGrouped(Tail(out.s), 2)
              /\ ParseFloat(Replace(Tail(out.s), ",")) = Num(RoundedTo(arg.n, 100))
        /\ arg = Num(123456000) =>
              out = Str(<<"$", "1", "2", ",", "3", "4", "5", ".", "6", "0">>)

C8_Witness ==
    /\ pc = "currency_done"
    /\ arg = Num(9999960)
    /\ out = Str(<<"$", "1", ",", "0", "0", "0", ".", "0", "0">>)

(* C9: format_percentage returns "N/A" exactly for None; any number, 0
   included, comes back as value * 100 rounded to one decimal and '%':
   0.153 gives "15.3%", 1.0 gives "100.0%", 0 gives "0.0%". *)
C9_FormatPercentage ==
    pc = "percentage_done" =>
        /\ ~IsRaise(out)
        /\ (out = Str(NA)) <=> (arg = None)
        /\ IsNumber(arg) =>
              /\ out.s[Len(out.s)] = "%"
              /\ out.s[Len(out.s) - 2] = "."
              /\ \A i \in 1..(Len(out.s) - 3) : IsDigit(out.s[i]) \/ (i = 1 /\ out.s[i] = "-")
              /\ IsDigit(out.s[Len(out.s) - 1])
              /\ ParseFloat(RStrip(out.s, "%")) = Num(100 * RoundedTo(arg.n, 10))
        /\ arg = Num(1530) => out = Str(<<"1", "5", ".", "3", "%">>)
        /\ arg = Num(10000) => out = Str(<<"1", "0", "0", ".", "0", "%">>)
        /\ arg = Num(0) => out = Str(<<"0", ".", "0", "%">>)

C9_Witness ==
    /\ pc = "percentage_done"
    /\ arg = Num(0)
    /\ out = Str(<<"0", ".", "0", "%">>)

(* C1: aggregating the empty record raises nothing and every leaf of the
   report is the string "N/A". *)
C1_EmptyRecordAllNA ==
    (pc = "aggregated" /\ school_data = EmptyRecord) =>
        /\ err = NoErr
        /\ metrics.t = "odict"
        /\ \A i \in 1..Len(Leaves(metrics)) : Leaves(metrics)[i] = Str(NA)

(* the lookup of one entry of FieldPaths in a record *)
LookupField(rec, fp) == Lookup(rec, fp[1], fp[2])

(* C2: on a record obtained from the full record by deleting keys at any
   depth, get_school_metrics does not raise, and each field path resolves
   to the value found at it or, the path being cut, to the lookup's
   default (None when it has none). *)
C2_DeletedKeysNeverRaise ==
    pc = "aggregated" =>
        /\ err = NoErr
        /\ metrics.t = "odict"
        /\ \A i \in 1..Len(FieldPaths) :
              LookupField(school_data, FieldPaths[i]) =
                  IF HasPath(school_data, FieldPaths[i][1])
                  THEN ValueAt(FullRecord, FieldPaths[i][1])
                  ELSE FieldPaths[i][2]

C2_Witness ==
    /\ pc = "aggregated"
    /\ edits = 2
    /\ HasPath(school_data, <<"latest">>)
    /\ ~HasPath(school_data, <<"latest", "student">>)
    /\ ~HasPath(school_data, <<"school", "city">>)
    /\ At(At(metrics, "Institution Overview"), "Name") = Str(<<"H", "U">>)
    /\ At(At(At(metrics, "Demographics"), "Gender"), "Men") = Str(NA)

(* an intermediate key of the path is present and holds null or a scalar *)
BrokenStep(rec, path) ==
    \E k \in 1..(Len(path) - 1) :
        /\ HasPath(rec, SubSeq(path, 1, k))
        /\ ValueAt(rec, SubSeq(path, 1, k)).t # "map"

(* C3: a field path with an intermediate key that holds null, or a scalar
   where a mapping is expected, resolves to the absent-marker and does not
   raise. *)
C3_BrokenStepIsAbsent ==
    \A i \in 1..Len(FieldPaths) :
        BrokenStep(school_data, FieldPaths[i][1]) =>
            LookupField(school_data, FieldPaths[i]) \in {None, FieldPaths[i][2]}

(* C4: a selected school that is not a key of the fetched mapping does not
   crash the script. *)
C4_MissingSchoolDoesNotCrash ==
    (pc \notin {"fetch", "select", "sidebar"} /\ selected_school \notin DOMAIN schools_data.m)
        => pc # "crashed"

Succeeded(resp) == resp.status = 200 /\ resp.results # <<>>

(* C5: a school is a key of the mapping only if its response was a 200
   with a non-empty results array; every other response leaves no entry
   for the school, and the loop goes on: once it is over every school was
   requested and every successful one is stored with its record. *)
C5_OnlySuccessesStored ==
    /\ DOMAIN schools_data.m \subseteq DOMAIN responses
    /\ \A s \in DOMAIN responses :
          /\ s \in DOMAIN schools_data.m => Succeeded(responses[s])
          /\ ~Succeeded(responses[s]) => s \notin DOMAIN schools_data.m
    /\ pc # "fetch" =>
          /\ DOMAIN responses = Schools
          /\ \A s \in Schools :
                Succeeded(responses[s]) =>
                    /\ s \in DOMAIN schools_data.m
                    /\ schools_data.m[s].raw_data = responses[s].results[1]
                    /\ schools_data.m[s].school_name = s

C5_Witness ==
    /\ pc = "select"
    /\ responses[SAMPLE_SCHOOLS[1]].status = 500
    /\ responses[SAMPLE_SCHOOLS[1]].results # <<>>
    /\ SAMPLE_SCHOOLS[1] \notin DOMAIN schools_data.m
    /\ SAMPLE_SCHOOLS[2] \in DOMAIN schools_data.m

UndergradPath == <<"latest", "student", "enrollment", "undergrad_12_month">>

GradPath == <<"latest", "student", "enrollment", "grad_12_month">>

PastCol1 == pc \in {"col2", "costs", "outcomes", "done"}

(* C6: with both enrollments in the record the total shown is their sum
   (21000 + 14000 = 35000); with either one absent the enrollment block
   raises a conversion error and shows no total. *)
C6_TotalEnrollment ==
    /\ PastCol1 =>
          /\ HasPath(school_data, UndergradPath)
          /\ HasPath(school_data, GradPath)
          /\ shown["total"] = FmtGrouped(Num(ValueAt(school_data, UndergradPath).n
                                            + ValueAt(school_data, GradPath).n))
          /\ (ValueAt(school_data, UndergradPath) = PyInt(21000)
                /\ ValueAt(school_data, GradPath) = PyInt(14000))
               => shown["total"] = Str(<<"3", "5", ",", "0", "0", "0">>)
    /\ (pc = "crashed" /\ err.at = "col1") =>
          /\ ~HasPath(school_data, UndergradPath) \/ ~HasPath(school_data, GradPath)
          /\ err.e = "ValueError"
          /\ "total" \notin DOMAIN shown

C6_Witness ==
    /\ pc = "crashed"
    /\ err = Crash("ValueError", "col1")
    /\ ~HasPath(school_data, UndergradPath)
    /\ HasPath(school_data, GradPath)

(* the record lacks, or has 0 for, a median-earnings field, a gender share
   or the student size *)
LacksChartField(rec) ==
    \E p \in ServedDeletions \cup ServedZeros :
        /\ p \notin {UndergradPath, GradPath, <<"latest", "student", "enrollment">>}
        /\ ~HasPath(rec, p) \/ ValueAt(rec, p) = PyInt(0)

(* C7: for a school of the mapping whose record lacks, or has 0 for, a
   median-earnings field, a gender share or the student size, the quick
   stats, the gender series and the earnings series are built without an
   exception. *)
C7_AbsentFieldNeverRaises ==
    (selected_school \in DOMAIN schools_data.m /\ school_data # None
        /\ LacksChartField(school_data))
        => ~(pc = "crashed" /\ err.at \in {"sidebar", "col2", "outcomes"})

=============================================================================
